---- MODULE Spec2Model ----
(***************************************************************************)
(* Model of the vet-records-processing application:                        *)
(*   - the date-extraction ingest route (deriveFAQsFromDates and POST),    *)
(*   - the Gemini summary route (POST with its model fallback loop),       *)
(*   - the file selection of the upload page (mergeFiles and the drop,     *)
(*     browse, remove and clear handlers).                                 *)
(* Strings the code inspects character by character (specific_type, date,  *)
(* file names) are sequences of one-character strings.  Strings the code   *)
(* only searches for markers (error messages, model output) are sequences  *)
(* of tokens.                                                              *)
(***************************************************************************)
EXTENDS Integers, Sequences, FiniteSets, TLC

VARIABLES
    route,              \* which POST handler serves the request
    pc,                 \* position of the handler
    apiKey,             \* process.env.GOOGLE_API_KEY is set
    reqFiles,           \* files.length of the request's form data
    idx,                \* position of the for..of loop in the model list
    text,               \* the text of the model call that ended the loop
    extractedData,      \* ingest: let extractedData
    extractionSuccess,  \* ingest: let extractionSuccess
    lastError,          \* both routes: let lastError
    faqs,               \* ingest: const faqs
    model,              \* summary: let model (the handle last constructed)
    result,             \* summary: let result
    response,           \* the NextResponse returned
    calls,              \* every generateContent call of the request, in order
    files,              \* page: useState files
    error,              \* page: useState error
    lastEvent,          \* page: the last event handled
    currentDate,        \* new Date().toISOString().split('T')[0] of the request
    lastOutcome         \* what the last call of the request produced

vars == <<route, pc, apiKey, reqFiles, idx, text, extractedData, extractionSuccess,
          lastError, faqs, model, result, response, calls, files, error, lastEvent,
          currentDate, lastOutcome>>

\* Longest `dates` array a model response carries.
MaxDates == 2

(***************************************************************************)
(* JavaScript values                                                       *)
(***************************************************************************)
\* null in a string | null field
Null == <<"null">>

\* undefined, or a variable declared without initializer
Undefined == [type |-> "undefined"]

\* the null result of findMostRecent
NullEntry == [type |-> "null"]

\* String.prototype.toLowerCase on one character
toLowerChar(c) ==
    CASE c = "A" -> "a" [] c = "B" -> "b" [] c = "C" -> "c" [] c = "D" -> "d"
      [] c = "E" -> "e" [] c = "F" -> "f" [] c = "G" -> "g" [] c = "H" -> "h"
      [] c = "I" -> "i" [] c = "J" -> "j" [] c = "K" -> "k" [] c = "L" -> "l"
      [] c = "M" -> "m" [] c = "N" -> "n" [] c = "O" -> "o" [] c = "P" -> "p"
      [] c = "Q" -> "q" [] c = "R" -> "r" [] c = "S" -> "s" [] c = "T" -> "t"
      [] c = "U" -> "u" [] c = "V" -> "v" [] c = "W" -> "w" [] c = "X" -> "x"
      [] c = "Y" -> "y" [] c = "Z" -> "z" [] OTHER -> c

\* String.prototype.toLowerCase
toLowerCase(s) == [i \in 1..Len(s) |-> toLowerChar(s[i])]

\* String.prototype.includes
includes(s, sub) ==
    \E i \in 1..(Len(s) - Len(sub) + 1) : SubSeq(s, i, i + Len(sub) - 1) = sub

\* String.prototype.endsWith
endsWith(s, suffix) ==
    /\ Len(s) >= Len(suffix)
    /\ SubSeq(s, Len(s) - Len(suffix) + 1, Len(s)) = suffix

\* Collation rank of the characters of numeric dates: punctuation sorts
\* before digits, '-' before '/'.
collationRank(c) ==
    CASE c = "-" -> 1 [] c = "/" -> 2
      [] c = "0" -> 10 [] c = "1" -> 11 [] c = "2" -> 12 [] c = "3" -> 13
      [] c = "4" -> 14 [] c = "5" -> 15 [] c = "6" -> 16 [] c = "7" -> 17
      [] c = "8" -> 18 [] c = "9" -> 19

\* a.localeCompare(b): negative, zero or positive
RECURSIVE localeCompare(_, _)
localeCompare(a, b) ==
    IF a = <<>> /\ b = <<>> THEN 0
    ELSE IF a = <<>> THEN -1
    ELSE IF b = <<>> THEN 1
    ELSE IF collationRank(Head(a)) < collationRank(Head(b)) THEN -1
    ELSE IF collationRank(Head(a)) > collationRank(Head(b)) THEN 1
    ELSE localeCompare(Tail(a), Tail(b))

(***************************************************************************)
(* deriveFAQsFromDates                                                     *)
(***************************************************************************)
\* faulty variant: ascending comparator
compareAscending(a, b) == localeCompare(a.date, b.date)

\* the comparator of findMostRecent: (a, b) => b.date.localeCompare(a.date)
compareFn(a, b) == localeCompare(b.date, a.date)

\* faulty variant: x goes before the elements it compares equal to
RECURSIVE insertBeforeEqual(_, _)
insertBeforeEqual(x, s) ==
    IF s = <<>> THEN <<x>>
    ELSE IF compareFn(Head(s), x) < 0
         THEN <<Head(s)>> \o insertBeforeEqual(x, Tail(s))
         ELSE <<x>> \o s

\* Array.prototype.sort is stable: x goes after every element that does not
\* sort after it.
RECURSIVE insertSorted(_, _)
insertSorted(x, s) ==
    IF s = <<>> THEN <<x>>
    ELSE IF compareFn(Head(s), x) <= 0
         THEN <<Head(s)>> \o insertSorted(x, Tail(s))
         ELSE <<x>> \o s

\* faulty variant: the sort is left out
notSorted(s) == s

\* Array.prototype.sort with compareFn
RECURSIVE sort(_)
sort(s) ==
    IF s = <<>> THEN <<>>
    ELSE insertSorted(s[Len(s)], sort(SubSeq(s, 1, Len(s) - 1)))

\* findMostRecent, applied to the copy dates.filter(filterFn) made: sort it
\* descending by date, take the first
findMostRecent(filteredCopy) ==
    LET filtered == sort(filteredCopy)
    IN  IF Len(filtered) > 0 THEN filtered[1] ELSE NullEntry

\* faulty variant: findMostRecent sorting the input array in place
datesSortedInPlace(dates) == sort(dates)

\* The input array after deriveFAQsFromDates: filter() copies, sort() acts on
\* the copy, nothing else writes to `dates`.
datesAfterDerive(dates) == dates

rabies == <<"r", "a", "b", "i", "e", "s">>
fecal == <<"f", "e", "c", "a", "l">>
heartwormWord == <<"h", "e", "a", "r", "t", "w", "o", "r", "m">>
wellnessWord == <<"w", "e", "l", "l", "n", "e", "s", "s">>
physical == <<"p", "h", "y", "s", "i", "c", "a", "l">>
dentalWord == <<"d", "e", "n", "t", "a", "l">>
dhppWord == <<"d", "h", "p", "p">>
da2p == <<"d", "a", "2", "p">>
leptoWord == <<"l", "e", "p", "t", "o">>
influenzaWord == <<"i", "n", "f", "l", "u", "e", "n", "z", "a">>
flea == <<"f", "l", "e", "a">>
tick == <<"t", "i", "c", "k">>
lymeWord == <<"l", "y", "m", "e">>

\* faulty variant: the rabies filter without its category test
rabiesVaccineAnyCategory(dates) ==
    findMostRecent(SelectSeq(dates, LAMBDA d :
        includes(toLowerCase(d.specific_type), rabies)))

rabiesVaccine(dates) ==
    findMostRecent(SelectSeq(dates, LAMBDA d :
        d.category = "vaccination" /\ includes(toLowerCase(d.specific_type), rabies)))

fecalExam(dates) ==
    findMostRecent(SelectSeq(dates, LAMBDA d :
        d.category = "exam" /\ includes(toLowerCase(d.specific_type), fecal)))

heartworm(dates) ==
    findMostRecent(SelectSeq(dates, LAMBDA d :
        /\ (d.category = "exam" \/ d.category = "preventative_treatment")
        /\ includes(toLowerCase(d.specific_type), heartwormWord)))

wellness(dates) ==
    findMostRecent(SelectSeq(dates, LAMBDA d :
        /\ d.category = "exam"
        /\ \/ includes(toLowerCase(d.specific_type), wellnessWord)
           \/ includes(toLowerCase(d.specific_type), physical)))

dental(dates) ==
    findMostRecent(SelectSeq(dates, LAMBDA d :
        /\ (d.category = "exam" \/ d.category = "surgery")
        /\ includes(toLowerCase(d.specific_type), dentalWord)))

dhpp(dates) ==
    findMostRecent(SelectSeq(dates, LAMBDA d :
        /\ d.category = "vaccination"
        /\ \/ includes(toLowerCase(d.specific_type), dhppWord)
           \/ includes(toLowerCase(d.specific_type), da2p)))

lepto(dates) ==
    findMostRecent(SelectSeq(dates, LAMBDA d :
        d.category = "vaccination" /\ includes(toLowerCase(d.specific_type), leptoWord)))

influenza(dates) ==
    findMostRecent(SelectSeq(dates, LAMBDA d :
        d.category = "vaccination" /\ includes(toLowerCase(d.specific_type), influenzaWord)))

fleaTick(dates) ==
    findMostRecent(SelectSeq(dates, LAMBDA d :
        /\ d.category = "preventative_treatment"
        /\ \/ includes(toLowerCase(d.specific_type), flea)
           \/ includes(toLowerCase(d.specific_type), tick)))

lyme(dates) ==
    findMostRecent(SelectSeq(dates, LAMBDA d :
        d.category = "vaccination" /\ includes(toLowerCase(d.specific_type), lymeWord)))

\* faulty variant: the source assignment of a question is missing
answerWithoutSource(hit) ==
    IF hit = NullEntry THEN [date |-> Null, source |-> Null]
    ELSE [date |-> hit.date, source |-> Null]

\* if (x) { faqs.<q>_date = x.date; faqs.<q>_source = x.source; }
\* over fields initialised to null
answer(hit) ==
    IF hit = NullEntry THEN [date |-> Null, source |-> Null]
    ELSE [date |-> hit.date, source |-> hit.source]

deriveFAQsFromDates(dates) ==
    [ last_rabies_vaccine_date |-> answer(rabiesVaccine(dates)).date,
      last_rabies_vaccine_source |-> answer(rabiesVaccine(dates)).source,
      last_fecal_exam_date |-> answer(fecalExam(dates)).date,
      last_fecal_exam_source |-> answer(fecalExam(dates)).source,
      last_heartworm_exam_or_treatment_date |-> answer(heartworm(dates)).date,
      last_heartworm_exam_or_treatment_source |-> answer(heartworm(dates)).source,
      last_wellness_screen_date |-> answer(wellness(dates)).date,
      last_wellness_screen_source |-> answer(wellness(dates)).source,
      last_dental_date |-> answer(dental(dates)).date,
      last_dental_source |-> answer(dental(dates)).source,
      last_dhpp_date |-> answer(dhpp(dates)).date,
      last_dhpp_source |-> answer(dhpp(dates)).source,
      last_lepto_date |-> answer(lepto(dates)).date,
      last_lepto_source |-> answer(lepto(dates)).source,
      last_influenza_date |-> answer(influenza(dates)).date,
      last_influenza_source |-> answer(influenza(dates)).source,
      last_flea_tick_prevention_date |-> answer(fleaTick(dates)).date,
      last_flea_tick_prevention_source |-> answer(fleaTick(dates)).source,
      last_lyme_date |-> answer(lyme(dates)).date,
      last_lyme_source |-> answer(lyme(dates)).source ]

(***************************************************************************)
(* Model output: entries of the `dates` array                              *)
(***************************************************************************)
Doc1 == <<"Document 1">>
Doc2 == <<"Document 2">>

Date20231120 == <<"2", "0", "2", "3", "-", "1", "1", "-", "2", "0">>
Date20240205 == <<"2", "0", "2", "4", "-", "0", "2", "-", "0", "5">>
Date20241105 == <<"2", "0", "2", "4", "-", "1", "1", "-", "0", "5">>
\* not zero-padded: 1 September 2024
DateUnpadded == <<"2", "0", "2", "4", "-", "9", "-", "1">>
\* not converted by the model: MM/DD/YYYY
DateSlashed == <<"1", "2", "/", "1", "5", "/", "2", "0", "2", "3">>

TypeRabies == <<"R", "a", "b", "i", "e", "s">>
TypeFecal == <<"F", "e", "c", "a", "l">>
TypeHeartworm == <<"H", "e", "a", "r", "t", "w", "o", "r", "m", " ", "t", "e", "s", "t">>
TypeHeartwormLower == <<"h", "e", "a", "r", "t", "w", "o", "r", "m">>
TypeWellness == <<"W", "e", "l", "l", "n", "e", "s", "s">>
TypePhysical == <<"p", "h", "y", "s", "i", "c", "a", "l", " ", "e", "x", "a", "m">>
TypeDental == <<"D", "e", "n", "t", "a", "l">>
TypeDentalLower == <<"d", "e", "n", "t", "a", "l">>
TypeDhppDa2p == <<"D", "H", "P", "P", "/", "D", "A", "2", "P">>
TypeLepto == <<"L", "e", "p", "t", "o">>
TypeInfluenza == <<"I", "n", "f", "l", "u", "e", "n", "z", "a">>
TypeFleaTick == <<"F", "l", "e", "a", "/", "T", "i", "c", "k">>
TypeLyme == <<"L", "y", "m", "e">>
TypeCBC == <<"C", "B", "C">>

\* CategorizedDate['category']
Categories ==
    {"vaccination", "certificate", "exam", "prescribed_medication",
     "preventative_treatment", "bloodwork", "surgery", "reminder", "other"}

Entry(d, c, t, s) == [date |-> d, category |-> c, specific_type |-> t, source |-> s]

\* category and specific_type of events that answer some question
AnsweringKinds ==
    { <<"vaccination", TypeRabies>>, <<"exam", TypeFecal>>, <<"exam", TypeHeartworm>>,
      <<"preventative_treatment", TypeHeartwormLower>>, <<"exam", TypeWellness>>,
      <<"exam", TypePhysical>>, <<"surgery", TypeDental>>, <<"exam", TypeDentalLower>>,
      <<"vaccination", TypeDhppDa2p>>, <<"vaccination", TypeLepto>>,
      <<"vaccination", TypeInfluenza>>, <<"preventative_treatment", TypeFleaTick>>,
      <<"vaccination", TypeLyme>> }

\* category and specific_type of events that answer no question
OtherKinds ==
    { <<"certificate", TypeRabies>>, <<"reminder", TypeLyme>>, <<"other", TypeDentalLower>>,
      <<"prescribed_medication", TypeHeartwormLower>>, <<"bloodwork", TypeCBC>>,
      <<"surgery", TypeHeartworm>>, <<"vaccination", TypeFecal>> }

\* The entries a model response is built from when deriveFAQsFromDates is
\* examined on its own.
EntryPool ==
    {Entry(Date20231120, k[1], k[2], Doc1) : k \in AnsweringKinds}
      \cup {Entry(Date20240205, k[1], k[2], Doc2) : k \in AnsweringKinds}
      \cup {Entry(Date20241105, k[1], k[2], Doc1) : k \in OtherKinds}
      \cup {Entry(Date20240205, "vaccination", TypeRabies, Doc1),
            Entry(DateUnpadded, "vaccination", TypeRabies, Doc2)}

\* An element of `dates` without a specific_type: the response schema asks
\* for the property, the route does not check the parsed array's elements.
EntryWithoutType(d, c, s) == [date |-> d, category |-> c, source |-> s]

\* The entries a model response is built from inside a request; the last two
\* are elements that are no CategorizedDate.
RoutePool ==
    {Entry(Date20231120, "vaccination", TypeRabies, Doc1),
     Entry(Date20240205, "vaccination", TypeRabies, Doc2),
     Entry(Date20241105, "certificate", TypeRabies, Doc1),
     Entry(Date20241105, "vaccination", TypeRabies, Doc2),
     Entry(DateSlashed, "surgery", TypeDental, Doc2),
     Entry(Date20240205, "exam", TypeDentalLower, Doc1),
     EntryWithoutType(Date20240205, "vaccination", Doc1),
     NullEntry}

\* The dates the server's clock shows when a request arrives.
Date20240615 == <<"2", "0", "2", "4", "-", "0", "6", "-", "1", "5">>
Date20250101 == <<"2", "0", "2", "5", "-", "0", "1", "-", "0", "1">>
Clock == {Date20240615, Date20250101}

\* all sequences over S of length at most n
BoundedSeq(S, n) == UNION {[1..k -> S] : k \in 0..n}

(***************************************************************************)
(* Errors, model output and JSON                                           *)
(***************************************************************************)
\* new Error(message); the message is a sequence of tokens
Error(msg) == [type |-> "error", isError |-> TRUE, message |-> msg]

\* Errors the Gemini SDK throws when the API rejects a call for rate limiting
RateLimitErrors ==
    { Error(<<"[GoogleGenerativeAI Error]", "RATE_LIMIT_EXCEEDED">>),
      Error(<<"[GoogleGenerativeAI Error]", "[", "429", "Too Many Requests", "]">>) }

\* Errors the Gemini SDK throws from generateContent
ApiErrors ==
    RateLimitErrors \cup
    { Error(<<"[GoogleGenerativeAI Error]", "API_KEY_INVALID">>),
      Error(<<"[GoogleGenerativeAI Error]", "PERMISSION_DENIED">>),
      Error(<<"[GoogleGenerativeAI Error]", "[", "403", "]", "PERMISSION_DENIED",
              "API_KEY_INVALID">>),
      Error(<<"fetch failed">>),
      Error(<<>>) }

JsNull == [type |-> "null"]
JsNumber(n) == [type |-> "number", value |-> n]
JsString(s) == [type |-> "string", value |-> s]
JsArray(items) == [type |-> "array", items |-> items]
\* an object: its top-level keys and the value of its `dates` property
JsRecord(keys, d) == [type |-> "object", keys |-> keys, dates |-> d]
\* an object with a `dates` property
JsObject(d) == JsRecord({"dates"}, d)
\* an object without one
JsObjectOf(keys) == JsRecord(keys, Undefined)

\* The text of a model response is a sequence of tokens: a JSON document
\* with the value it denotes, a markdown code fence, or a word of prose.
JsonDoc(v) == [kind |-> "json", word |-> "{", value |-> v]
FenceOpen == [kind |-> "fence", word |-> "[fence]json"]
FenceClose == [kind |-> "fence", word |-> "[fence]"]
Prose(w) == [kind |-> "prose", word |-> w]
Text(tokens) == [type |-> "text", tokens |-> tokens]

\* response.text() of a structured-output call carrying the `dates` array
DatesText(items) == Text(<<JsonDoc(JsObject(JsArray(items)))>>)

\* Responses that are not JSON, or JSON of another shape
OddTexts ==
    { Text(<<Prose("Here"), Prose("are"), Prose("the"), Prose("dates")>>),
      Text(<<Prose("Page"), Prose("429"), Prose("of"), Prose("the"), Prose("record")>>),
      Text(<<JsonDoc(JsNull)>>),
      Text(<<JsonDoc(JsNumber(0))>>),
      Text(<<JsonDoc(JsObjectOf({}))>>),
      Text(<<JsonDoc(JsObject(JsNull))>>),
      Text(<<JsonDoc(JsObject(JsString(<<"none">>)))>>) }

\* JSON.parse of a token sequence: the value of a lone JSON document, or a
\* SyntaxError whose message quotes the text
JSONparse(tokens) ==
    IF Len(tokens) = 1 /\ tokens[1].kind = "json"
    THEN [threw |-> FALSE, value |-> tokens[1].value]
    ELSE [threw |-> TRUE,
          error |-> Error(<<"Unexpected token">>
                          \o [i \in 1..Len(tokens) |-> tokens[i].word]
                          \o <<"is not valid JSON">>)]

\* parseGeminiResponse: JSON.parse, a failure rethrown with a prefix
parseGeminiResponse(t) ==
    LET r == JSONparse(t.tokens)
    IN  IF r.threw
        THEN [threw |-> TRUE,
              error |-> Error(<<"Structured output parsing failed:">> \o r.error.message)]
        ELSE r

\* ToBoolean
truthy(v) ==
    CASE v.type = "undefined" -> FALSE
      [] v.type = "null" -> FALSE
      [] v.type = "number" -> v.value # 0
      [] v.type = "string" -> v.value # <<>>
      [] OTHER -> TRUE

\* v.dates
datesOf(v) == IF v.type = "object" THEN v.dates ELSE Undefined

\* faulty variant: the structure check accepts any parsed object
validStructureAnyObject(data) == truthy(data)

\* the negation of
\* !extractedData || !extractedData.dates || !Array.isArray(extractedData.dates)
validStructure(data) ==
    /\ truthy(data)
    /\ truthy(datesOf(data))
    /\ datesOf(data).type = "array"

(***************************************************************************)
(* Responses                                                               *)
(***************************************************************************)
NoResponse == [status |-> 0]

\* NextResponse.json(body, { status })
Json(body, status) == [status |-> status, body |-> body]

\* faulty variant: PERMISSION_DENIED is tested before API_KEY_INVALID
ingestErrorResponsePermissionFirst(e) ==
    LET errorMessage == IF e.type = "error" /\ e.isError THEN e.message ELSE <<>>
    IN  IF errorMessage # <<>>
        THEN IF includes(errorMessage, <<"RATE_LIMIT_EXCEEDED">>)
                  \/ includes(errorMessage, <<"429">>)
             THEN Json([error |-> "Rate limit exceeded",
                        details |-> <<"enable billing">>], 429)
             ELSE IF includes(errorMessage, <<"PERMISSION_DENIED">>)
             THEN Json([error |-> "Permission denied",
                        details |-> <<"enable the Generative Language API">>], 403)
             ELSE IF includes(errorMessage, <<"API_KEY_INVALID">>)
             THEN Json([error |-> "Invalid API key",
                        details |-> <<"check GOOGLE_API_KEY">>], 401)
             ELSE Json([error |-> "Processing failed", details |-> errorMessage], 500)
        ELSE Json([error |-> "Unknown error occurred"], 500)

\* the catch block of the date-extraction POST
ingestErrorResponse(e) ==
    LET errorMessage == IF e.type = "error" /\ e.isError THEN e.message ELSE <<>>
    IN  IF errorMessage # <<>>
        THEN IF includes(errorMessage, <<"RATE_LIMIT_EXCEEDED">>)
                  \/ includes(errorMessage, <<"429">>)
             THEN Json([error |-> "Rate limit exceeded",
                        details |-> <<"enable billing">>], 429)
             ELSE IF includes(errorMessage, <<"API_KEY_INVALID">>)
             THEN Json([error |-> "Invalid API key",
                        details |-> <<"check GOOGLE_API_KEY">>], 401)
             ELSE IF includes(errorMessage, <<"PERMISSION_DENIED">>)
             THEN Json([error |-> "Permission denied",
                        details |-> <<"enable the Generative Language API">>], 403)
             ELSE Json([error |-> "Processing failed", details |-> errorMessage], 500)
        ELSE Json([error |-> "Unknown error occurred"], 500)

(***************************************************************************)
(* The date-extraction ingest route: POST                                  *)
(***************************************************************************)
\* const models
models ==
    <<"gemini-1.5-pro-latest", "gemini-1.5-pro", "gemini-1.5-flash-latest",
      "gemini-1.5-flash">>

\* faulty variant: a failed model is tried again
sameModelAgain(i) == i

\* for (const modelName of models): the position after position i
nextModel(i) == i + 1

\* What one call of callGeminiWithSchema can produce: an error thrown by the
\* SDK, or the text of the response.
CallOutcomes ==
    ApiErrors \cup OddTexts \cup {DatesText(items) : items \in BoundedSeq(RoutePool, MaxDates)}

\* One entry of the call log.
Call(name, success) == [model |-> name, success |-> success]

\* faulty variant: the first error of the loop is kept
keepFirstError(previous, e) == IF previous = Undefined THEN e ELSE previous

\* lastError = error
recordError(previous, e) == e

\* The categories the filters of deriveFAQsFromDates test before they read
\* specific_type.
filterCategories == {"vaccination", "exam", "preventative_treatment", "surgery"}

\* A filter throws a TypeError on d: d is null, or d passes a category test
\* and has no specific_type to call toLowerCase on.
throwsOn(d) ==
    IF "category" \notin DOMAIN d
    THEN TRUE
    ELSE d.category \in filterCategories /\ "specific_type" \notin DOMAIN d

\* deriveFAQsFromDates(dates) throws
deriveThrows(dates) == \E i \in 1..Len(dates) : throwsOn(dates[i])

\* The TypeError it throws: that of the first element a filter throws on.
deriveError(dates) ==
    LET i == CHOOSE j \in 1..Len(dates) :
                 throwsOn(dates[j]) /\ \A k \in 1..(j - 1) : ~throwsOn(dates[k])
    IN  IF "category" \notin DOMAIN dates[i]
        THEN Error(<<"Cannot read properties of null (reading 'category')">>)
        ELSE Error(<<"Cannot read properties of undefined (reading 'toLowerCase')">>)

\* The state of the page and of the other route, which a request leaves alone.
PageIdle == files = <<>> /\ error = Null /\ lastEvent = Undefined

\* No model call has been made.
NoCalls == calls = <<>> /\ lastOutcome = Undefined

Init ==
    /\ route = "ingest"
    /\ pc = "idle"
    /\ apiKey \in BOOLEAN
    /\ currentDate \in Clock
    /\ reqFiles = 0
    /\ idx = 0
    /\ text = Undefined
    /\ extractedData = Undefined
    /\ extractionSuccess = FALSE
    /\ lastError = Undefined
    /\ faqs = Undefined
    /\ model = Undefined
    /\ result = Undefined
    /\ response = NoResponse
    /\ NoCalls
    /\ PageIdle

\* Number of files a request carries.
RequestSizes == 0..2

\* A POST arrives.
Request(n) ==
    /\ pc = "idle"
    /\ reqFiles' = n
    /\ pc' = "checkKey"
    /\ UNCHANGED <<route, apiKey, idx, text, extractedData, extractionSuccess, lastError,
                   faqs, model, result, response, calls, files, error, lastEvent,
                   currentDate, lastOutcome>>

\* faulty variant: the files are checked before the key
IngestCheckFilesBeforeKey ==
    /\ route = "ingest"
    /\ pc = "checkKey"
    /\ IF reqFiles = 0
       THEN /\ response' = Json([error |-> "No files provided"], 400)
            /\ pc' = "done"
       ELSE IF ~apiKey
       THEN /\ response' = Json([error |-> "Google API key not configured"], 500)
            /\ pc' = "done"
       ELSE /\ pc' = "checkFiles"
            /\ UNCHANGED response
    /\ UNCHANGED <<route, apiKey, reqFiles, idx, text, extractedData, extractionSuccess,
                   lastError, faqs, model, result, calls, files, error, lastEvent,
                   currentDate, lastOutcome>>

\* if (!process.env.GOOGLE_API_KEY) return 500
IngestCheckKey ==
    /\ route = "ingest"
    /\ pc = "checkKey"
    /\ IF ~apiKey
       THEN /\ response' = Json([error |-> "Google API key not configured"], 500)
            /\ pc' = "done"
       ELSE /\ pc' = "checkFiles"
            /\ UNCHANGED response
    /\ UNCHANGED <<route, apiKey, reqFiles, idx, text, extractedData, extractionSuccess,
                   lastError, faqs, model, result, calls, files, error, lastEvent,
                   currentDate, lastOutcome>>

\* if (!files || files.length === 0) return 400; otherwise the loop starts
IngestCheckFiles ==
    /\ route = "ingest"
    /\ pc = "checkFiles"
    /\ IF reqFiles = 0
       THEN /\ response' = Json([error |-> "No files provided"], 400)
            /\ pc' = "done"
            /\ UNCHANGED idx
       ELSE /\ pc' = "loop"
            /\ idx' = 1
            /\ UNCHANGED response
    /\ UNCHANGED <<route, apiKey, reqFiles, text, extractedData, extractionSuccess,
                   lastError, faqs, model, result, calls, files, error, lastEvent,
                   currentDate, lastOutcome>>

\* One iteration of the model loop: the call, the parse, the structure check,
\* and the catch that records the error and moves on.
IngestTryModel ==
    /\ route = "ingest"
    /\ pc = "loop"
    /\ idx <= Len(models)
    /\ \E outcome \in CallOutcomes :
        LET parsed == parseGeminiResponse(outcome)
            failed(e) ==
                /\ lastError' = recordError(lastError, e)
                /\ idx' = nextModel(idx)
                /\ pc' = IF nextModel(idx) > Len(models) THEN "afterLoop" ELSE "loop"
                /\ calls' = Append(calls, Call(models[idx], FALSE))
                /\ text' = Undefined
                /\ UNCHANGED extractionSuccess
        IN  /\ lastOutcome' = outcome
            /\ IF outcome.type = "error"
               THEN failed(outcome) /\ UNCHANGED extractedData
               ELSE IF parsed.threw
               THEN failed(parsed.error) /\ UNCHANGED extractedData
               ELSE IF ~validStructure(parsed.value)
               THEN /\ failed(Error(<<"Invalid response structure: missing dates array">>))
                    /\ extractedData' = parsed.value
               ELSE /\ extractedData' = parsed.value
                    /\ extractionSuccess' = TRUE
                    /\ pc' = "afterLoop"
                    /\ calls' = Append(calls, Call(models[idx], TRUE))
                    /\ text' = outcome
                    /\ UNCHANGED <<lastError, idx>>
    /\ UNCHANGED <<route, apiKey, reqFiles, faqs, model, result, response, files, error, lastEvent,
                   currentDate>>

\* if (!extractionSuccess) throw lastError, caught by the handler's catch
IngestAllFailed ==
    /\ route = "ingest"
    /\ pc = "afterLoop"
    /\ ~extractionSuccess
    /\ response' = ingestErrorResponse(lastError)
    /\ pc' = "done"
    /\ UNCHANGED <<route, apiKey, reqFiles, idx, text, extractedData, extractionSuccess,
                   lastError, faqs, model, result, calls, files, error, lastEvent,
                   currentDate, lastOutcome>>

\* faulty variant: deriveFAQsFromDates runs outside the try block, so its
\* TypeError leaves the handler
IngestFinishOutsideTry ==
    /\ route = "ingest"
    /\ pc = "afterLoop"
    /\ extractionSuccess
    /\ LET dates == datesOf(extractedData).items
           after == datesAfterDerive(dates)
       IN  IF deriveThrows(dates)
           THEN /\ pc' = "escaped"
                /\ UNCHANGED <<faqs, extractedData, response>>
           ELSE /\ faqs' = deriveFAQsFromDates(dates)
                /\ extractedData' = JsObject(JsArray(after))
                /\ response' = Json([faqs |-> deriveFAQsFromDates(dates),
                                     all_dates |-> after], 200)
                /\ pc' = "done"
    /\ UNCHANGED <<route, apiKey, reqFiles, idx, text, extractionSuccess, lastError,
                   model, result, calls, files, error, lastEvent, currentDate, lastOutcome>>

\* deriveFAQsFromDates(extractedData.dates), finalData, the 200 response.
\* A `dates` that is no array has no filter method, and a filter throws on
\* an element that is no CategorizedDate: the TypeError is caught by the
\* handler's catch.
IngestFinish ==
    /\ route = "ingest"
    /\ pc = "afterLoop"
    /\ extractionSuccess
    /\ IF datesOf(extractedData).type = "array"
       THEN LET dates == datesOf(extractedData).items
                after == datesAfterDerive(dates)
            IN  IF deriveThrows(dates)
                THEN /\ response' = ingestErrorResponse(deriveError(dates))
                     /\ UNCHANGED <<faqs, extractedData>>
                ELSE /\ faqs' = deriveFAQsFromDates(dates)
                     /\ extractedData' = JsObject(JsArray(after))
                     /\ response' = Json([faqs |-> deriveFAQsFromDates(dates),
                                          all_dates |-> after], 200)
       ELSE /\ response' = ingestErrorResponse(
                               Error(<<"dates.filter is not a function">>))
            /\ UNCHANGED <<faqs, extractedData>>
    /\ pc' = "done"
    /\ UNCHANGED <<route, apiKey, reqFiles, idx, text, extractionSuccess, lastError,
                   model, result, calls, files, error, lastEvent,
                   currentDate, lastOutcome>>

Next ==
    \/ \E n \in RequestSizes : Request(n)
    \/ IngestCheckKey
    \/ IngestCheckFiles
    \/ IngestTryModel
    \/ IngestAllFailed
    \/ IngestFinish

Spec == Init /\ [][Next]_vars

(***************************************************************************)
(* deriveFAQsFromDates on its own: the handler right after a first model   *)
(* call returned a `dates` array built from EntryPool.                     *)
(***************************************************************************)
InitDerive ==
    /\ route = "ingest"
    /\ pc = "afterLoop"
    /\ apiKey = TRUE
    /\ reqFiles = 1
    /\ idx = 1
    /\ \E items \in BoundedSeq(EntryPool, MaxDates) :
        /\ extractedData = JsObject(JsArray(items))
        /\ text = DatesText(items)
        /\ lastOutcome = DatesText(items)
    /\ calls = <<Call(models[1], TRUE)>>
    /\ currentDate = Date20240615
    /\ extractionSuccess = TRUE
    /\ lastError = Undefined
    /\ faqs = Undefined
    /\ model = Undefined
    /\ result = Undefined
    /\ response = NoResponse
    /\ PageIdle

NextDerive == IngestFinish

SpecDerive == InitDerive /\ [][NextDerive]_vars

(***************************************************************************)
(* The Gemini summary route: POST                                          *)
(***************************************************************************)
\* genAI.getGenerativeModel({ model: name, ... })
getGenerativeModel(name) == [type |-> "model", name |-> name]

\* const modelFallbacks
modelFallbacks ==
    <<"gemini-1.5-flash", "gemini-1.5-pro", "gemini-1.5-flash-latest",
      "gemini-1.5-pro-latest">>

\* The keys of a Summary
SummaryKeys == {"faqs", "vaccines", "surgeries", "medications", "bloodwork"}

\* Texts a summary call returns: the summary bare, fenced, with prose around
\* it, with sections missing, or no JSON at all.
SummaryTexts ==
    { Text(<<JsonDoc(JsObjectOf(SummaryKeys))>>),
      Text(<<FenceOpen, JsonDoc(JsObjectOf(SummaryKeys)), FenceClose>>),
      Text(<<Prose("Here"), JsonDoc(JsObjectOf(SummaryKeys))>>),
      Text(<<JsonDoc(JsObjectOf({"faqs", "vaccines"}))>>),
      Text(<<JsonDoc(JsObjectOf({}))>>),
      Text(<<Prose("Sorry")>>) }

\* What one generateContent call of the summary route can produce.
SummaryOutcomes == ApiErrors \cup SummaryTexts

\* faulty variant: every error moves the loop on to the next model
anyErrorIsRateLimit(e) == TRUE

\* error.message.includes('RATE_LIMIT_EXCEEDED') || error.message.includes('429')
isRateLimit(e) ==
    includes(e.message, <<"RATE_LIMIT_EXCEEDED">>) \/ includes(e.message, <<"429">>)

\* faulty variant: everything around the JSON document is stripped
cleanTextKeepsJsonOnly(tokens) == SelectSeq(tokens, LAMBDA t : t.kind = "json")

\* text.replace(/```json\n?/g, '').replace(/```\n?/g, '').trim()
cleanText(tokens) == SelectSeq(tokens, LAMBDA t : t.kind # "fence")

\* the catch block of the summary POST
summaryErrorResponse(e) ==
    IF e.type = "error" /\ e.message # <<>>
    THEN IF isRateLimit(e)
         THEN Json([error |-> "Rate limit exceeded", details |-> <<"enable billing">>], 429)
         ELSE IF includes(e.message, <<"API_KEY_INVALID">>)
         THEN Json([error |-> "Invalid API key",
                    details |-> <<"check GOOGLE_API_KEY">>], 401)
         ELSE IF includes(e.message, <<"PERMISSION_DENIED">>)
         THEN Json([error |-> "Permission denied",
                    details |-> <<"enable the Generative Language API">>], 403)
         ELSE Json([error |-> "Processing failed", details |-> e.message], 500)
    ELSE Json([error |-> "Unknown error occurred"], 500)

InitSummary ==
    /\ route = "summary"
    /\ pc = "idle"
    /\ apiKey \in BOOLEAN
    /\ currentDate = Date20240615
    /\ reqFiles = 0
    /\ idx = 0
    /\ text = Undefined
    /\ extractedData = Undefined
    /\ extractionSuccess = FALSE
    /\ lastError = Undefined
    /\ faqs = Undefined
    /\ model = Undefined
    /\ result = Undefined
    /\ response = NoResponse
    /\ NoCalls
    /\ PageIdle

\* if (!process.env.GOOGLE_API_KEY) return 500
SummaryCheckKey ==
    /\ route = "summary"
    /\ pc = "checkKey"
    /\ IF ~apiKey
       THEN /\ response' = Json([error |-> "Google API key not configured"], 500)
            /\ pc' = "done"
       ELSE /\ pc' = "checkFiles"
            /\ UNCHANGED response
    /\ UNCHANGED <<route, apiKey, reqFiles, idx, text, extractedData, extractionSuccess,
                   lastError, faqs, model, result, calls, files, error, lastEvent,
                   currentDate, lastOutcome>>

\* if (!files || files.length === 0) return 400; otherwise the handle for
\* gemini-1.5-pro-latest is built and the loop starts
SummaryCheckFiles ==
    /\ route = "summary"
    /\ pc = "checkFiles"
    /\ IF reqFiles = 0
       THEN /\ response' = Json([error |-> "No files provided"], 400)
            /\ pc' = "done"
            /\ UNCHANGED <<idx, model>>
       ELSE /\ model' = getGenerativeModel("gemini-1.5-pro-latest")
            /\ pc' = "loop"
            /\ idx' = 1
            /\ UNCHANGED response
    /\ UNCHANGED <<route, apiKey, reqFiles, text, extractedData, extractionSuccess,
                   lastError, faqs, result, calls, files, error, lastEvent,
                   currentDate, lastOutcome>>

\* One iteration of the fallback loop: the handle for modelName replaces
\* `model`, generateContent is called on it; an error that is no rate limit
\* ends the loop.
SummaryTryModel ==
    /\ route = "summary"
    /\ pc = "loop"
    /\ idx <= Len(modelFallbacks)
    /\ model' = getGenerativeModel(modelFallbacks[idx])
    /\ \E outcome \in SummaryOutcomes :
        IF outcome.type = "error"
        THEN /\ lastError' = recordError(lastError, outcome)
             /\ calls' = Append(calls, Call(modelFallbacks[idx], FALSE))
             /\ lastOutcome' = outcome
             /\ IF ~isRateLimit(outcome)
                THEN pc' = "afterLoop" /\ UNCHANGED idx
                ELSE /\ idx' = idx + 1
                     /\ pc' = IF idx + 1 > Len(modelFallbacks) THEN "afterLoop" ELSE "loop"
             /\ UNCHANGED result
        ELSE /\ result' = outcome
             /\ calls' = Append(calls, Call(modelFallbacks[idx], TRUE))
             /\ lastOutcome' = outcome
             /\ pc' = "afterLoop"
             /\ UNCHANGED <<lastError, idx>>
    /\ UNCHANGED <<route, apiKey, reqFiles, text, extractedData, extractionSuccess,
                   faqs, response, files, error, lastEvent,
                   currentDate>>

\* if (!result) throw lastError, caught by the handler's catch
SummaryAllFailed ==
    /\ route = "summary"
    /\ pc = "afterLoop"
    /\ result = Undefined
    /\ response' = summaryErrorResponse(lastError)
    /\ pc' = "done"
    /\ UNCHANGED <<route, apiKey, reqFiles, idx, text, extractedData, extractionSuccess,
                   lastError, faqs, model, result, calls, files, error, lastEvent,
                   currentDate, lastOutcome>>

\* response.text(), the clean-up, JSON.parse, and the response
SummaryFinish ==
    /\ route = "summary"
    /\ pc = "afterLoop"
    /\ result # Undefined
    /\ text' = result
    /\ LET parsed == JSONparse(cleanText(result.tokens))
       IN  IF parsed.threw
           THEN response' = Json([error |-> "Failed to parse AI response",
                                  details |-> result.tokens], 500)
           ELSE response' = Json(parsed.value, 200)
    /\ pc' = "done"
    /\ UNCHANGED <<route, apiKey, reqFiles, idx, extractedData, extractionSuccess,
                   lastError, faqs, model, result, calls, files, error, lastEvent,
                   currentDate, lastOutcome>>

NextSummary ==
    \/ \E n \in RequestSizes : Request(n)
    \/ SummaryCheckKey
    \/ SummaryCheckFiles
    \/ SummaryTryModel
    \/ SummaryAllFailed
    \/ SummaryFinish

SpecSummary == InitSummary /\ [][NextSummary]_vars

(***************************************************************************)
(* Both Gemini routes side by side: a request is served by either handler. *)
(***************************************************************************)
InitRoutes == Init \/ InitSummary

NextRoutes ==
    \/ \E n \in RequestSizes : Request(n)
    \/ IngestCheckKey
    \/ IngestCheckFiles
    \/ IngestTryModel
    \/ IngestAllFailed
    \/ IngestFinish
    \/ SummaryCheckKey
    \/ SummaryCheckFiles
    \/ SummaryTryModel
    \/ SummaryAllFailed
    \/ SummaryFinish

SpecRoutes == InitRoutes /\ [][NextRoutes]_vars

(***************************************************************************)
(* The upload page: the selected files                                     *)
(***************************************************************************)
\* Most files one drop or browse event carries.
MaxIncoming == 2

File(name, size, type) == [name |-> name, size |-> size, type |-> type]

NameAPdf == <<"a", ".", "p", "d", "f">>
NameBPdfUpper == <<"B", ".", "P", "D", "F">>
NameNotes == <<"n", "o", "t", "e", "s", ".", "t", "x", "t">>
dotPdf == <<".", "p", "d", "f">>

\* The files the user has at hand: two sizes of one name, a PDF recognised
\* by its name only, a text file, and a second file of the same name and
\* size as the first.
FilePool ==
    { File(NameAPdf, 1, "application/pdf"),
      File(NameAPdf, 2, "application/pdf"),
      File(NameBPdfUpper, 1, ""),
      File(NameNotes, 1, "text/plain"),
      File(NameAPdf, 1, "") }

\* faulty variant: duplicates are looked for in the files selected before the event
mergeAgainstExisting(existing, incoming) ==
    existing \o SelectSeq(incoming, LAMBDA newFile :
        ~\E i \in 1..Len(existing) :
            existing[i].name = newFile.name /\ existing[i].size = newFile.size)

\* mergeFiles: each incoming file is pushed unless a file of the same name
\* and size is already in the list being built
RECURSIVE mergeFiles(_, _)
mergeFiles(existing, incoming) ==
    IF incoming = <<>> THEN existing
    ELSE LET newFile == Head(incoming)
             isDuplicate ==
                 \E i \in 1..Len(existing) :
                     existing[i].name = newFile.name /\ existing[i].size = newFile.size
         IN  mergeFiles(IF isDuplicate THEN existing ELSE Append(existing, newFile),
                        Tail(incoming))

\* the filter of onDrop
isPdf(file) ==
    file.type = "application/pdf" \/ endsWith(toLowerCase(file.name), dotPdf)

\* Two of the files an event carries have the same name and size.
carriesDuplicates(incoming) ==
    \E i, j \in 1..Len(incoming) :
        /\ i < j
        /\ incoming[i].name = incoming[j].name
        /\ incoming[i].size = incoming[j].size

\* What is remembered of the last event: its kind, how many files it
\* carried and whether two of them were duplicates of each other.
Event(kind, incoming) ==
    [type |-> "event", kind |-> kind, count |-> Len(incoming),
     duplicates |-> carriesDuplicates(incoming)]

InitPage ==
    /\ route = "page"
    /\ pc = "idle"
    /\ apiKey = TRUE
    /\ currentDate = Date20240615
    /\ reqFiles = 0
    /\ idx = 0
    /\ text = Undefined
    /\ extractedData = Undefined
    /\ extractionSuccess = FALSE
    /\ lastError = Undefined
    /\ faqs = Undefined
    /\ model = Undefined
    /\ result = Undefined
    /\ response = NoResponse
    /\ NoCalls
    /\ PageIdle

RequestIdle ==
    UNCHANGED <<route, pc, apiKey, reqFiles, idx, text, extractedData, extractionSuccess,
                lastError, faqs, model, result, response, calls, currentDate, lastOutcome>>

\* onDrop
Drop(incoming) ==
    /\ route = "page"
    /\ lastEvent' = Event("drop", incoming)
    /\ LET pdfFiles == SelectSeq(incoming, isPdf)
       IN  IF Len(incoming) = 0
           THEN UNCHANGED <<files, error>>
           ELSE IF Len(pdfFiles) = 0
           THEN /\ error' = <<"Please drop only PDF files">>
                /\ UNCHANGED files
           ELSE /\ files' = mergeFiles(files, pdfFiles)
                /\ error' = Null
    /\ RequestIdle

\* onChange of the file input
Browse(incoming) ==
    /\ route = "page"
    /\ lastEvent' = Event("browse", incoming)
    /\ files' = mergeFiles(files, incoming)
    /\ UNCHANGED error
    /\ RequestIdle

\* the remove button of one of the first five files
RemoveOne(i) ==
    /\ route = "page"
    /\ i \in 1..Len(files)
    /\ i <= 5
    /\ lastEvent' = Event("remove", <<>>)
    /\ files' = [j \in 1..(Len(files) - 1) |-> IF j < i THEN files[j] ELSE files[j + 1]]
    /\ UNCHANGED error
    /\ RequestIdle

\* the Clear all button, shown while files are selected
ClearAll ==
    /\ route = "page"
    /\ Len(files) > 0
    /\ lastEvent' = Event("clear", <<>>)
    /\ files' = <<>>
    /\ UNCHANGED error
    /\ RequestIdle

NextPage ==
    \/ \E incoming \in BoundedSeq(FilePool, MaxIncoming) : Drop(incoming)
    \/ \E incoming \in BoundedSeq(FilePool, MaxIncoming) : Browse(incoming)
    \/ \E i \in 1..5 : RemoveOne(i)
    \/ ClearAll

SpecPage == InitPage /\ [][NextPage]_vars

(***************************************************************************)
(* Vocabulary of the properties                                            *)
(***************************************************************************)
Questions ==
    {"rabies", "fecal", "heartworm", "wellness", "dental", "dhpp", "lepto",
     "influenza", "flea_tick", "lyme"}

FAQDate(f, q) ==
    CASE q = "rabies" -> f.last_rabies_vaccine_date
      [] q = "fecal" -> f.last_fecal_exam_date
      [] q = "heartworm" -> f.last_heartworm_exam_or_treatment_date
      [] q = "wellness" -> f.last_wellness_screen_date
      [] q = "dental" -> f.last_dental_date
      [] q = "dhpp" -> f.last_dhpp_date
      [] q = "lepto" -> f.last_lepto_date
      [] q = "influenza" -> f.last_influenza_date
      [] q = "flea_tick" -> f.last_flea_tick_prevention_date
      [] q = "lyme" -> f.last_lyme_date

FAQSource(f, q) ==
    CASE q = "rabies" -> f.last_rabies_vaccine_source
      [] q = "fecal" -> f.last_fecal_exam_source
      [] q = "heartworm" -> f.last_heartworm_exam_or_treatment_source
      [] q = "wellness" -> f.last_wellness_screen_source
      [] q = "dental" -> f.last_dental_source
      [] q = "dhpp" -> f.last_dhpp_source
      [] q = "lepto" -> f.last_lepto_source
      [] q = "influenza" -> f.last_influenza_source
      [] q = "flea_tick" -> f.last_flea_tick_prevention_source
      [] q = "lyme" -> f.last_lyme_source

\* The categories a question is answered from.
QuestionCategories(q) ==
    CASE q \in {"rabies", "dhpp", "lepto", "influenza", "lyme"} -> {"vaccination"}
      [] q \in {"fecal", "wellness"} -> {"exam"}
      [] q = "heartworm" -> {"exam", "preventative_treatment"}
      [] q = "dental" -> {"exam", "surgery"}
      [] q = "flea_tick" -> {"preventative_treatment"}

\* The substrings a question looks for in the lower-cased specific_type.
QuestionWords(q) ==
    CASE q = "rabies" -> {rabies}
      [] q = "fecal" -> {fecal}
      [] q = "heartworm" -> {heartwormWord}
      [] q = "wellness" -> {wellnessWord, physical}
      [] q = "dental" -> {dentalWord}
      [] q = "dhpp" -> {dhppWord, da2p}
      [] q = "lepto" -> {leptoWord}
      [] q = "influenza" -> {influenzaWord}
      [] q = "flea_tick" -> {flea, tick}
      [] q = "lyme" -> {lymeWord}

\* Entry e passes the category-and-substring filter of question q.
Passes(q, e) ==
    /\ e.category \in QuestionCategories(q)
    /\ \E w \in QuestionWords(q) : includes(toLowerCase(e.specific_type), w)

\* The categories that answer no question.
InertCategories ==
    {"certificate", "reminder", "prescribed_medication", "bloodwork", "other"}

\* UTF-16 code unit of the characters of numeric dates
codeUnit(c) ==
    CASE c = "-" -> 45 [] c = "/" -> 47
      [] c = "0" -> 48 [] c = "1" -> 49 [] c = "2" -> 50 [] c = "3" -> 51
      [] c = "4" -> 52 [] c = "5" -> 53 [] c = "6" -> 54 [] c = "7" -> 55
      [] c = "8" -> 56 [] c = "9" -> 57

\* a is lexicographically at most b, by code units
LexLeq(a, b) ==
    \/ /\ Len(a) <= Len(b)
       /\ \A i \in 1..Len(a) : a[i] = b[i]
    \/ \E i \in 1..Len(a) :
        /\ i <= Len(b)
        /\ \A j \in 1..(i - 1) : a[j] = b[j]
        /\ codeUnit(a[i]) < codeUnit(b[i])

Digits == {"0", "1", "2", "3", "4", "5", "6", "7", "8", "9"}

digitValue(c) == codeUnit(c) - 48

\* year, month and day of a string of the shape dddd-dd-dd
YearOf(s) ==
    1000 * digitValue(s[1]) + 100 * digitValue(s[2]) + 10 * digitValue(s[3]) + digitValue(s[4])
MonthOf(s) == 10 * digitValue(s[6]) + digitValue(s[7])
DayOf(s) == 10 * digitValue(s[9]) + digitValue(s[10])

IsLeapYear(y) == (y % 4 = 0 /\ y % 100 # 0) \/ y % 400 = 0

DaysInMonth(y, m) ==
    CASE m \in {4, 6, 9, 11} -> 30
      [] m = 2 -> IF IsLeapYear(y) THEN 29 ELSE 28
      [] OTHER -> 31

\* s is a zero-padded YYYY-MM-DD calendar date
IsISODate(s) ==
    /\ Len(s) = 10
    /\ s[5] = "-" /\ s[8] = "-"
    /\ \A i \in {1, 2, 3, 4, 6, 7, 9, 10} : s[i] \in Digits
    /\ MonthOf(s) \in 1..12
    /\ DayOf(s) \in 1..DaysInMonth(YearOf(s), MonthOf(s))

\* calendar date a is not after calendar date b
NotAfter(a, b) ==
    \/ YearOf(a) < YearOf(b)
    \/ YearOf(a) = YearOf(b) /\ MonthOf(a) < MonthOf(b)
    \/ YearOf(a) = YearOf(b) /\ MonthOf(a) = MonthOf(b) /\ DayOf(a) <= DayOf(b)

\* The request ended with the 200 response of the date-extraction route.
Derived == route = "ingest" /\ pc = "done" /\ response.status = 200

\* The `dates` array the accepted model call returned.
InputDates == datesOf(JSONparse(text.tokens).value).items

\* The entries of the input that pass the filter of question q.
PassingEntries(q) == {InputDates[i] : i \in {j \in 1..Len(InputDates) : Passes(q, InputDates[j])}}

(***************************************************************************)
(* Properties of deriveFAQsFromDates                                       *)
(***************************************************************************)
\* C1: for each of the ten questions the FAQ date is the lexicographically
\* greatest date among the input entries that pass the question's
\* category-and-substring filter, and null when no entry passes.
C1_GreatestPassingDate ==
    Derived =>
        \A q \in Questions :
            IF PassingEntries(q) = {}
            THEN FAQDate(faqs, q) = Null
            ELSE /\ \E e \in PassingEntries(q) : e.date = FAQDate(faqs, q)
                 /\ \A e \in PassingEntries(q) : LexLeq(e.date, FAQDate(faqs, q))

\* Two entries with different dates pass the rabies filter, the earlier one
\* last in the list, and another question has no passing entry.
C1_Witness ==
    /\ Derived
    /\ Len(InputDates) = 2
    /\ \A i \in 1..2 : Passes("rabies", InputDates[i])
    /\ InputDates[1].date = Date20240205
    /\ InputDates[2].date = Date20231120
    /\ faqs.last_rabies_vaccine_date = Date20240205
    /\ faqs.last_lyme_date = Null

\* C2: a question is answered only from entries of its own categories, and
\* entries of category certificate, reminder, prescribed_medication,
\* bloodwork or other set no field: the result is the one obtained without
\* them.
C2_OnlyOwnCategories ==
    Derived =>
        /\ \A q \in Questions :
            FAQDate(faqs, q) # Null =>
                \E i \in 1..Len(InputDates) :
                    /\ InputDates[i].category \in QuestionCategories(q)
                    /\ InputDates[i].date = FAQDate(faqs, q)
                    /\ InputDates[i].source = FAQSource(faqs, q)
        /\ faqs = deriveFAQsFromDates(
                      SelectSeq(InputDates, LAMBDA e : e.category \notin InertCategories))

\* A certificate entry naming rabies carries the greatest date, and the
\* rabies answer is the earlier vaccination.
C2_Witness ==
    /\ Derived
    /\ Len(InputDates) = 2
    /\ InputDates[1] = Entry(Date20241105, "certificate", TypeRabies, Doc1)
    /\ InputDates[2].category = "vaccination"
    /\ faqs.last_rabies_vaccine_date = InputDates[2].date
    /\ faqs.last_rabies_vaccine_date # Date20241105

\* C3: for each question the date and the source come from one and the same
\* input entry, one that passes the question's filter, and the date is null
\* exactly when the source is null.
C3_DateAndSourceOfOneEntry ==
    Derived =>
        \A q \in Questions :
            /\ FAQDate(faqs, q) = Null <=> FAQSource(faqs, q) = Null
            /\ FAQDate(faqs, q) # Null =>
                \E e \in PassingEntries(q) :
                    e.date = FAQDate(faqs, q) /\ e.source = FAQSource(faqs, q)

\* Two passing entries differ in date and in source; the answer carries the
\* source of the later one.
C3_Witness ==
    /\ Derived
    /\ Len(InputDates) = 2
    /\ InputDates[1] = Entry(Date20231120, "exam", TypeDentalLower, Doc1)
    /\ InputDates[2] = Entry(Date20240205, "surgery", TypeDental, Doc2)
    /\ faqs.last_dental_date = Date20240205
    /\ faqs.last_dental_source = Doc2

\* C5: when every date of the input is a zero-padded YYYY-MM-DD calendar
\* date, the date selected for a question is the chronologically most recent
\* date among the entries matching the question.
C5_MostRecentByCalendar ==
    (Derived /\ \A i \in 1..Len(InputDates) : IsISODate(InputDates[i].date)) =>
        \A q \in Questions :
            PassingEntries(q) # {} =>
                /\ IsISODate(FAQDate(faqs, q))
                /\ \A e \in PassingEntries(q) : NotAfter(e.date, FAQDate(faqs, q))

\* Two zero-padded dates of different years pass the heartworm filter, the
\* older one first.
C5_Witness ==
    /\ Derived
    /\ Len(InputDates) = 2
    /\ InputDates[1] = Entry(Date20231120, "exam", TypeHeartworm, Doc1)
    /\ InputDates[2] = Entry(Date20240205, "preventative_treatment", TypeHeartwormLower, Doc2)
    /\ faqs.last_heartworm_exam_or_treatment_date = Date20240205

(***************************************************************************)
(* Properties of the date-extraction ingest route                          *)
(***************************************************************************)
\* C4: every FAQ date of a successful response is null or a zero-padded
\* YYYY-MM-DD date string, whatever `dates` array the route accepted.
C4_FAQDatesAreISO ==
    Derived =>
        \A q \in Questions :
            FAQDate(response.body.faqs, q) = Null \/ IsISODate(FAQDate(response.body.faqs, q))

\* C6: within one request the models are called in the order of the list,
\* each at most once, a model only after every earlier one failed, and none
\* after the first success.
C6_LinearFallback ==
    route = "ingest" =>
        /\ Len(calls) <= Len(models)
        /\ \A i \in 1..Len(calls) : calls[i].model = models[i]
        /\ \A i \in 1..(Len(calls) - 1) : ~calls[i].success
        /\ pc = "loop" => (idx = Len(calls) + 1 /\ \A i \in 1..Len(calls) : ~calls[i].success)
        /\ pc \in {"idle", "checkKey", "checkFiles"} => calls = <<>>

\* Three models failed and the fourth, gemini-1.5-flash, succeeded.
C6_Witness ==
    /\ route = "ingest"
    /\ pc = "done"
    /\ Len(calls) = 4
    /\ calls[4] = Call("gemini-1.5-flash", TRUE)
    /\ response.status = 200

\* C7: deriveFAQsFromDates leaves its input as it was, and all_dates of the
\* response is the list the successful model call returned, entry for entry
\* in the same order.
C7_DatesUnchanged ==
    Derived =>
        /\ response.body.all_dates = InputDates
        /\ datesOf(extractedData).items = InputDates

\* The returned list is not in the order the sort of findMostRecent
\* produces: the older of two rabies vaccinations comes first.
C7_Witness ==
    /\ Derived
    /\ Len(response.body.all_dates) = 2
    /\ response.body.all_dates[1] = Entry(Date20231120, "vaccination", TypeRabies, Doc1)
    /\ response.body.all_dates[2] = Entry(Date20240205, "vaccination", TypeRabies, Doc2)
    /\ response.body.faqs.last_rabies_vaccine_date = Date20240205

\* The text is JSON whose value has a `dates` field that is an array.
HasDatesArray(t) ==
    /\ t.type = "text"
    /\ ~JSONparse(t.tokens).threw
    /\ datesOf(JSONparse(t.tokens).value).type = "array"

\* C10: a model attempt succeeds only if its text parses as JSON with a
\* `dates` array; any other outcome is that model's failure and the next
\* model is tried; deriveFAQsFromDates runs only on the `dates` array of the
\* successful attempt, which is the first attempt that passed.
C10_OnlyValidatedData ==
    route = "ingest" =>
        /\ extractionSuccess <=> (calls # <<>> /\ calls[Len(calls)].success)
        /\ extractionSuccess =>
            (HasDatesArray(text) /\ extractedData = JSONparse(text.tokens).value)
        /\ \A i \in 1..Len(calls) :
            (~calls[i].success /\ i < Len(models) /\ i = Len(calls))
                => (pc = "loop" /\ idx = i + 1)
        /\ faqs # Undefined =>
            /\ extractionSuccess
            /\ faqs = response.body.faqs
            /\ response.body.all_dates = InputDates

\* A first attempt parsed but failed the structure check, leaving its value
\* in extractedData; the second attempt passed and its array was derived.
C10_Witness ==
    /\ Derived
    /\ Len(calls) = 2
    /\ lastError = Error(<<"Invalid response structure: missing dates array">>)
    /\ Len(response.body.all_dates) = 1
    /\ faqs # Undefined

(***************************************************************************)
(* Properties of the upload page and of the summary route                  *)
(***************************************************************************)
\* C8: after any sequence of drop, browse, remove-one and clear-all events
\* the selected list never holds two files of the same name and size, also
\* when one event carries duplicates.
C8_NoDuplicateFiles ==
    route = "page" =>
        \A i, j \in 1..Len(files) :
            (files[i].name = files[j].name /\ files[i].size = files[j].size) => i = j

\* A browse event carried two files of one name and size, and one of them
\* was added to a selection that held another file.
C8_Witness ==
    /\ route = "page"
    /\ lastEvent = Event("browse", <<File(NameAPdf, 1, "application/pdf"), File(NameAPdf, 1, "")>>)
    /\ lastEvent.duplicates
    /\ files = <<File(NameNotes, 1, "text/plain"), File(NameAPdf, 1, "application/pdf")>>

\* a Gemini 1.5 Pro model
ProModels == {"gemini-1.5-pro", "gemini-1.5-pro-latest"}

\* C9: the first model the summary route asks to generate content is a
\* Gemini 1.5 Pro model, and another model is called only after it failed.
C9_ProFirst ==
    route = "summary" =>
        /\ calls # <<>> => calls[1].model \in ProModels
        /\ \A i \in 1..Len(calls) :
            calls[i].model \notin ProModels =>
                \E j \in 1..(i - 1) : calls[j].model \in ProModels /\ ~calls[j].success

(***************************************************************************)
(* Error reporting of the two Gemini routes                                *)
(***************************************************************************)
\* The error an ingest call that produced outcome o ends in: the SDK's
\* error, the parse error, or the structure error; Undefined when the call
\* succeeded.
ErrorOfOutcome(o) ==
    IF o.type = "error" THEN o
    ELSE IF parseGeminiResponse(o).threw THEN parseGeminiResponse(o).error
    ELSE IF ~validStructure(parseGeminiResponse(o).value)
    THEN Error(<<"Invalid response structure: missing dates array">>)
    ELSE Undefined

\* All four models of the ingest route were called and failed, and the
\* response is out.
AllFailed ==
    /\ route = "ingest"
    /\ pc = "done"
    /\ Len(calls) = 4
    /\ \A i \in 1..4 : ~calls[i].success

\* The rules of the error mapping, in the order they are tried.
Rules ==
    << [markers |-> {"RATE_LIMIT_EXCEEDED", "429"}, status |-> 429,
        error |-> "Rate limit exceeded"],
       [markers |-> {"API_KEY_INVALID"}, status |-> 401, error |-> "Invalid API key"],
       [markers |-> {"PERMISSION_DENIED"}, status |-> 403, error |-> "Permission denied"] >>

Matches(msg, r) == \E i \in 1..Len(msg) : msg[i] \in r.markers

MessageOf(e) == IF e.type = "error" THEN e.message ELSE <<>>

\* The response follows the first rule the message of e matches, the
\* fallback with the message as details when it matches none, and the
\* unknown-error response when there is no message.
Reports(resp, e) ==
    LET msg == MessageOf(e)
        hits == {k \in 1..Len(Rules) : Matches(msg, Rules[k])}
    IN  IF msg = <<>>
        THEN resp.status = 500 /\ resp.body.error = "Unknown error occurred"
        ELSE IF hits # {}
        THEN LET first == CHOOSE k \in hits : \A h \in hits : k <= h
             IN  /\ resp.status = Rules[first].status
                 /\ resp.body.error = Rules[first].error
        ELSE /\ resp.status = 500
             /\ resp.body.error = "Processing failed"
             /\ resp.body.details = msg

\* C11: in the ingest route, when all four models have failed, the response
\* is the one the error of the last model tried (gemini-1.5-flash) maps to,
\* whatever the earlier models failed with.
C11_LastErrorDecides ==
    AllFailed =>
        /\ calls[4].model = "gemini-1.5-flash"
        /\ ErrorOfOutcome(lastOutcome) # Undefined
        /\ response = ingestErrorResponse(ErrorOfOutcome(lastOutcome))
        /\ Reports(response, ErrorOfOutcome(lastOutcome))

\* All four models failed, the last one with an invalid-key error, and the
\* response is 401.
C11_Witness ==
    /\ AllFailed
    /\ lastOutcome = Error(<<"[GoogleGenerativeAI Error]", "API_KEY_INVALID">>)
    /\ response.status = 401
    /\ response.body.error = "Invalid API key"

\* The handler's catch block ran: every model call failed, or (ingest)
\* deriveFAQsFromDates threw on the accepted array.
Caught ==
    /\ route \in {"ingest", "summary"}
    /\ pc = "done"
    /\ calls # <<>>
    /\ \/ ~calls[Len(calls)].success
       \/ route = "ingest" /\ deriveThrows(InputDates)

\* The error the catch block received.
CaughtError ==
    IF ~calls[Len(calls)].success THEN lastError ELSE deriveError(InputDates)

\* C12: both Gemini routes map a caught error by the first matching rule:
\* RATE_LIMIT_EXCEEDED or 429 in the message gives 429, API_KEY_INVALID 401,
\* PERMISSION_DENIED 403, any other message 500 'Processing failed' with
\* the message as details, no message 500 'Unknown error occurred'; every
\* caught error gets exactly one of these responses.
C12_FirstMatchingRule ==
    Caught =>
        /\ response.status \in {429, 401, 403, 500}
        /\ Reports(response, CaughtError)

\* The ingest route caught an error whose message names both
\* PERMISSION_DENIED and API_KEY_INVALID, and answered 401.
C12_Witness ==
    /\ Caught
    /\ route = "ingest"
    /\ lastError = Error(<<"[GoogleGenerativeAI Error]", "[", "403", "]", "PERMISSION_DENIED",
                           "API_KEY_INVALID">>)
    /\ response.status = 401

(***************************************************************************)
(* The fallback loop of the summary route                                  *)
(***************************************************************************)
\* The order the summary route tries its models in.
SummaryOrder ==
    <<"gemini-1.5-flash", "gemini-1.5-pro", "gemini-1.5-flash-latest",
      "gemini-1.5-pro-latest">>

\* The message of the last call's error names a rate limit.
LastCallRateLimited ==
    /\ lastOutcome.type = "error"
    /\ Matches(MessageOf(lastOutcome), Rules[1])

\* The last call threw an error that names no rate limit.
LastCallOtherError ==
    /\ calls # <<>>
    /\ lastOutcome.type = "error"
    /\ ~Matches(MessageOf(lastOutcome), Rules[1])

C14_KeyBeforeFiles ==
    (route = "ingest" /\ pc \notin {"idle", "checkKey"}) =>
        /\ ~apiKey =>
            /\ pc = "done"
            /\ response = Json([error |-> "Google API key not configured"], 500)
            /\ calls = <<>>
        /\ (apiKey /\ reqFiles = 0 /\ pc # "checkFiles") =>
            /\ pc = "done"
            /\ response = Json([error |-> "No files provided"], 400)
            /\ calls = <<>>

\* A request without files reached a server without the key and was
\* answered 500.
C14_Witness ==
    /\ route = "ingest"
    /\ pc = "done"
    /\ ~apiKey
    /\ reqFiles = 0
    /\ response.status = 500
    /\ calls = <<>>

(***************************************************************************)
(* Termination of the ingest route                                         *)
(***************************************************************************)
\* The statuses the ingest route answers with.
IngestStatuses == {200, 400, 401, 403, 429, 500}

\* The steps the handler has left at most: it falls with every step and is
\* zero once the response is out.
StepsLeft ==
    CASE pc = "idle" -> 8
      [] pc = "checkKey" -> 7
      [] pc = "checkFiles" -> 6
      [] pc = "loop" -> 6 - idx
      [] pc = "afterLoop" -> 1
      [] pc = "done" -> 0

\* C15: every POST to the ingest route ends with exactly one JSON response
\* whose status is 200, 400, 401, 403, 429 or 500, after at most four model
\* calls; no exception leaves the handler, also when deriveFAQsFromDates
\* throws on an element of the accepted `dates` array.  Termination: the
\* handler can always take a step until the response is out (after the loop
\* the step is IngestAllFailed, or IngestFinish, whose only guard besides
\* the position is extractionSuccess), and every step lowers StepsLeft.
C15_AlwaysOneResponse ==
    /\ [](route = "ingest" =>
            /\ pc \in {"idle", "checkKey", "checkFiles", "loop", "afterLoop", "done"}
            /\ Len(calls) <= 4
            /\ pc = "done" <=> response # NoResponse
            /\ pc = "done" => response.status \in IngestStatuses
            /\ pc \in {"idle", "checkKey", "checkFiles", "loop"} => ENABLED Next
            /\ pc = "afterLoop" => (extractionSuccess \/ ENABLED IngestAllFailed))
    /\ [][/\ response # NoResponse => response' = response
          /\ StepsLeft \in 1..8
          /\ StepsLeft' \in 0..(StepsLeft - 1)]_vars

\* The accepted array held an element without specific_type; the TypeError
\* of deriveFAQsFromDates was answered with 500.
C15_Witness ==
    /\ route = "ingest"
    /\ pc = "done"
    /\ extractionSuccess
    /\ InputDates = <<EntryWithoutType(Date20240205, "vaccination", Doc1)>>
    /\ deriveThrows(InputDates)
    /\ response.status = 500
    /\ response.body.error = "Processing failed"

(***************************************************************************)
(* What a 429 of the ingest route stands for                               *)
(***************************************************************************)
\* C16: the ingest route answers 429 only when the reported error is that
\* of a model call the API rejected for rate limiting; a text that fails
\* JSON parsing or the structure check is never reported as 429.
C16_RateLimitOnlyFromApi ==
    (route = "ingest" /\ pc = "done" /\ response.status = 429) =>
        lastOutcome \in RateLimitErrors

(***************************************************************************)
(* The answer of the summary route after a successful call                 *)
(***************************************************************************)
\* The text without its markdown fences is one JSON document.
StrippedIsJson(tokens) ==
    LET rest == SelectSeq(tokens, LAMBDA t : t.kind # "fence")
    IN  Len(rest) = 1 /\ rest[1].kind = "json"

\* The summary route has answered after a call that returned a text.
SummaryAnswered ==
    /\ route = "summary"
    /\ pc = "done"
    /\ calls # <<>>
    /\ calls[Len(calls)].success

\* C17: in the summary route, when the text of the successful call is not
\* valid JSON after the markdown fences are stripped, the answer is 500
\* 'Failed to parse AI response' with the raw text as details, and no
\* further model is tried.
C17_ParseFailureReported ==
    (SummaryAnswered /\ ~StrippedIsJson(lastOutcome.tokens)) =>
        /\ response = Json([error |-> "Failed to parse AI response",
                            details |-> lastOutcome.tokens], 500)
        /\ \A i \in 1..(Len(calls) - 1) : ~calls[i].success

\* The first model returned the summary with a word of prose before it; the
\* route answered 500 and called no other model.
C17_Witness ==
    /\ SummaryAnswered
    /\ calls = <<Call("gemini-1.5-flash", TRUE)>>
    /\ lastOutcome = Text(<<Prose("Here"), JsonDoc(JsObjectOf(SummaryKeys))>>)
    /\ response.status = 500
    /\ response.body.error = "Failed to parse AI response"

\* C18: every 200 response of the summary route carries the five sections
\* faqs, vaccines, surgeries, medications and bloodwork.
C18_AllSectionsPresent ==
    (route = "summary" /\ pc = "done" /\ response.status = 200) =>
        /\ response.body.type = "object"
        /\ SummaryKeys \subseteq response.body.keys

(***************************************************************************)
(* Ties in deriveFAQsFromDates                                             *)
(***************************************************************************)
\* The positions of the input entries that pass question q and carry the
\* date reported for it.
TopPositions(q) ==
    {i \in 1..Len(InputDates) :
        Passes(q, InputDates[i]) /\ InputDates[i].date = FAQDate(faqs, q)}

\* C19: when several entries that pass a question's filter share the
\* greatest date, the source reported is that of the one that comes first
\* in the input list.
C19_FirstOfTiesWins ==
    Derived =>
        \A q \in Questions :
            TopPositions(q) # {} =>
                LET first == CHOOSE i \in TopPositions(q) : \A j \in TopPositions(q) : i <= j
                IN  FAQSource(faqs, q) = InputDates[first].source

\* Two rabies vaccinations of one date from two documents: the source of
\* the first is reported.
C19_Witness ==
    /\ Derived
    /\ InputDates = <<Entry(Date20240205, "vaccination", TypeRabies, Doc2),
                      Entry(Date20240205, "vaccination", TypeRabies, Doc1)>>
    /\ faqs.last_rabies_vaccine_date = Date20240205
    /\ faqs.last_rabies_vaccine_source = Doc2

(***************************************************************************)
(* FAQ dates and the clock                                                 *)
(***************************************************************************)
\* C20: no FAQ date of a 200 response of the ingest route is later than the
\* current date of the request.
C20_NoFutureFAQDate ==
    Derived =>
        \A q \in Questions :
            (FAQDate(faqs, q) # Null /\ IsISODate(FAQDate(faqs, q))) =>
                NotAfter(FAQDate(faqs, q), currentDate)

====
